---- MODULE Spec2Model ----
(***************************************************************************)
(* Model of fake_upload.py: main(), ParallelUploader.run (the supervisor), *)
(* upload_worker, send_data, speed_controller and print_progress; and of    *)
(* dummy_server.py: UploadHandler.do_POST and do_GET, one handler thread   *)
(* per connection.                                                         *)
(*                                                                         *)
(* Units.  Sizes are counted in MiB (chunk_size_bytes = chunk_size_mb,     *)
(* total_bytes = daily_gb * 1024).  Time is counted in ticks of 0.5 s.     *)
(* A thread's own computation takes no time; time passes only while a      *)
(* thread sleeps, waits in join, or is inside the network calls of         *)
(* send_data.  time.sleep(0.01) of the worker is shorter than a tick.      *)
(* The sizes of the receiver are counted in bytes.                         *)
(***************************************************************************)
EXTENDS Integers, FiniteSets, TLC

\* ---------------------------------------------------------------- bounds
MaxTime == 5
MaxSends == 3
MaxPosts == 2

\* ------------------------------------------------------ program constants
MinThreadsArg == 1
MaxThreadsArg == 100
MinChunkArg == 1
MaxChunkArg == 100
PollTicks == 1
CtlTicks == 2
DampTicks == 1
JoinTicks == 4
NoTime == -1
OvershootNum == 11
OvershootDen == 10
LargeBody == 50 * 1024 * 1024
ReadChunk == 8192
ReadToEnd == -1

\* Command lines tried: values inside and outside the validated ranges.
ThreadArgs == {0, 1, 2, MaxThreadsArg + 1}
ChunkArgs == {0, 2, MaxChunkArg + 1}
TotalArgs == {0, 4}
DurationArgs == {-1, 0, 2}
PortArgs == {9, 8080}

\* The command lines tried are the baseline below, in either mode, with at
\* most one argument changed.
Baseline == [threads |-> 1, chunk |-> 2, total |-> 4, duration |-> 2, port |-> 8080]

CommandLine(t, c, g, d, p) ==
  [threads |-> t, chunk |-> c, total |-> g, duration |-> d, port |-> p]

Changed(line) == {k \in DOMAIN Baseline : line[k] # Baseline[k]}

\* The workers a validated command line of ThreadArgs can start.
WorkerIds == {t \in ThreadArgs : t >= MinThreadsArg /\ t <= MaxThreadsArg}
NoThread == <<"none", 0>>
MainThread == <<"main", 0>>
CtlThread == <<"ctl", 0>>
WorkerThread(w) == <<"worker", w>>

\* The connections of the receiver that carry a POST; one more carries a GET.
Posts == 1..MaxPosts
PostHandler(h) == <<"post", h>>
GetHandler == <<"get", 0>>

NoTriple == [u |-> 0, s |-> 0, f |-> 0]
NoResult == [ok |-> FALSE, wrote |-> FALSE, hdr |-> FALSE, clen |-> 0, sent |-> 0,
             recv |-> FALSE]

VARIABLES
  args_threads, args_chunk, total_bytes, duration, continuous, target_port,
  pc_main, probe, n_started, join_i, join_deadline, main_wake, final, exit_reason,
  uploaded_bytes, successful_uploads, failed_uploads,
  stats_lock, stop_event, start_time, end_time, now,
  w_pc, w_res, w_tmp, w_open,
  c_pc, c_wake, c_elapsed, c_bytes, prog,
  calls_returned, bytes_ok, stop_by,
  total_received, request_count, handler_stats_lock,
  h_pc, content_length, h_body, bytes_read, h_tmp,
  g_pc, g_total, g_count

cfgv == <<args_threads, args_chunk, total_bytes, duration, continuous, target_port>>
mainv == <<pc_main, probe, n_started, join_i, join_deadline, main_wake, final, exit_reason>>
statv == <<uploaded_bytes, successful_uploads, failed_uploads>>
workv == <<w_pc, w_res, w_tmp, w_open>>
ctlv == <<c_pc, c_wake, c_elapsed, c_bytes, prog>>
ghostv == <<calls_returned, bytes_ok>>
srvv == <<total_received, request_count, handler_stats_lock,
          h_pc, content_length, h_body, bytes_read, h_tmp, g_pc, g_total, g_count>>
vars == <<cfgv, mainv, statv, workv, ctlv, ghostv, stop_by,
          stats_lock, stop_event, start_time, end_time, now, srvv>>

\* ------------------------------------------------------------ configuration
num_threads == args_threads
chunk_size_bytes == args_chunk
Workers == 1..num_threads

\* The receiver after the class body has run and before any connection.
ServerIdle ==
  /\ total_received = 0
  /\ request_count = 0
  /\ handler_stats_lock = NoThread
  /\ h_pc = [h \in Posts |-> "h_idle"]
  /\ content_length = [h \in Posts |-> 0]
  /\ h_body = [h \in Posts |-> 0]
  /\ bytes_read = [h \in Posts |-> 0]
  /\ h_tmp = [h \in Posts |-> 0]
  /\ g_pc = "g_idle"
  /\ g_total = 0
  /\ g_count = 0

Init ==
  /\ args_threads \in ThreadArgs
  /\ args_chunk \in ChunkArgs
  /\ total_bytes \in TotalArgs
  /\ duration \in DurationArgs
  /\ continuous \in BOOLEAN
  /\ target_port \in PortArgs
  /\ Cardinality(Changed(CommandLine(args_threads, args_chunk, total_bytes,
                                      duration, target_port))) <= 1
  /\ pc_main = "main"
  /\ probe = "none"
  /\ n_started = 0
  /\ join_i = 0
  /\ join_deadline = 0
  /\ main_wake = 0
  /\ final = NoTriple
  /\ exit_reason = "none"
  /\ uploaded_bytes = 0
  /\ successful_uploads = 0
  /\ failed_uploads = 0
  /\ stats_lock = NoThread
  /\ stop_event = FALSE
  /\ start_time = NoTime
  /\ end_time = NoTime
  /\ now = 0
  /\ w_pc = [w \in WorkerIds |-> "w_idle"]
  /\ w_res = [w \in WorkerIds |-> NoResult]
  /\ w_tmp = [w \in WorkerIds |-> 0]
  /\ w_open = [w \in WorkerIds |-> 0]
  /\ c_pc = "c_idle"
  /\ c_wake = 0
  /\ c_elapsed = 0
  /\ c_bytes = 0
  /\ prog = NoTriple
  /\ calls_returned = 0
  /\ bytes_ok = 0
  /\ stop_by = "none"
  /\ ServerIdle

\* ------------------------------------------------------------------- lock
\* `with self.stats_lock:` entry: blocks until the lock is free.
\* Mutant: the lock never makes anyone wait.
LockNeverHeld == TRUE

LockFree == stats_lock = NoThread

\* Mutant: the block is entered without waiting for the lock.
AcquireNoWait(t) == stats_lock' = t

Acquire(t) ==
  /\ LockFree
  /\ stats_lock' = t

\* A `with self.stats_lock:` block taken as one step: entered when the lock
\* is free and left with the lock free again.
WithLock(t) ==
  /\ LockFree
  /\ UNCHANGED stats_lock

\* Mutant: the block is left without releasing the lock.
ReleaseForgotten(t) == UNCHANGED stats_lock

\* `with self.stats_lock:` exit (Lock.release() has no notion of an owner).
Release(t) == stats_lock' = NoThread

\* ------------------------------------------------------------------- main
ThreadsArgInvalid == args_threads < MinThreadsArg \/ args_threads > MaxThreadsArg

ChunkArgInvalid == args_chunk < MinChunkArg \/ args_chunk > MaxChunkArg

\* main(): argument validation, signal.signal(SIGINT, ...), the constructor
\* (ZeroDivisionError at bytes_per_second when duration_hours = 0), then run().
Main ==
  /\ pc_main = "main"
  /\ pc_main' = IF ThreadsArgInvalid \/ ChunkArgInvalid THEN "exit1"
                ELSE IF duration = 0 THEN "crash"
                ELSE "probe"
  /\ UNCHANGED <<srvv, cfgv, probe, n_started, join_i, join_deadline, main_wake, final,
                 exit_reason, statv, workv, ctlv, ghostv, stop_by, stats_lock,
                 stop_event, start_time, end_time, now>>

\* test_connection(): one connect/close; returns True or False.
TestConnection ==
  /\ pc_main = "probe"
  /\ \E ok \in BOOLEAN : probe' = IF ok THEN "ok" ELSE "failed"
  /\ pc_main' = "probed"
  /\ UNCHANGED <<srvv, cfgv, n_started, join_i, join_deadline, main_wake, final,
                 exit_reason, statv, workv, ctlv, ghostv, stop_by, stats_lock,
                 stop_event, start_time, end_time, now>>

\* Mutant: the result of the probe is ignored.
ProbeIgnored == TRUE

ProbePassed == probe = "ok"

\* run(): `if not self.test_connection(): ... return`, else start_time and
\* end_time are taken.
RunStart ==
  /\ pc_main = "probed"
  /\ IF ProbePassed
       THEN /\ pc_main' = "spawn"
            /\ start_time' = now
            /\ end_time' = now + duration
       ELSE /\ pc_main' = "aborted"
            /\ UNCHANGED <<start_time, end_time>>
  /\ UNCHANGED <<srvv, cfgv, probe, n_started, join_i, join_deadline, main_wake, final,
                 exit_reason, statv, workv, ctlv, ghostv, stop_by, stats_lock,
                 stop_event, now>>

\* run(): the loop starting the worker threads, then the controller thread.
Spawn ==
  /\ pc_main = "spawn"
  /\ IF n_started < num_threads
       THEN /\ n_started' = n_started + 1
            /\ w_pc' = [w_pc EXCEPT ![n_started + 1] = "w_loop"]
            /\ UNCHANGED <<pc_main, c_pc>>
       ELSE /\ c_pc' = "c_while"
            /\ pc_main' = "poll"
            /\ UNCHANGED <<n_started, w_pc>>
  /\ UNCHANGED <<srvv, cfgv, probe, join_i, join_deadline, main_wake, final, exit_reason,
                 statv, w_res, w_tmp, w_open, c_wake, c_elapsed, c_bytes, prog,
                 ghostv,
                 stop_by, stats_lock, stop_event, start_time, end_time, now>>

\* ------------------------------------------------------ run: polling loop
\* Mutant: the `if not self.continuous` tests are dropped.
AlwaysBounded == TRUE

Bounded == ~continuous

\* Mutant: the goal counts the chunk that is still to be sent.
RunGoalOneChunkEarly == uploaded_bytes + chunk_size_bytes >= total_bytes

\* run(): `if self.uploaded_bytes >= self.total_bytes: break`
RunGoalReached == uploaded_bytes >= total_bytes

\* Mutant: the duration is added to end_time a second time.
TimeExpiredLate == now >= end_time + duration

\* run(): `if time.time() >= end_time: break`
TimeExpired == now >= end_time

\* run(): time.sleep(0.5) between two polls.
PollSleep == PollTicks

\* run(): `while not self.stop_event.is_set():` and `if not self.continuous:`
Poll ==
  /\ pc_main = "poll"
  /\ IF stop_event
       THEN /\ pc_main' = "setstop"
            /\ exit_reason' = "stop"
            /\ UNCHANGED main_wake
       ELSE IF Bounded
         THEN /\ pc_main' = "goal"
              /\ UNCHANGED <<exit_reason, main_wake>>
         ELSE /\ pc_main' = "sleep"
              /\ main_wake' = now + PollSleep
              /\ UNCHANGED exit_reason
  /\ UNCHANGED <<srvv, cfgv, probe, n_started, join_i, join_deadline, final, statv, workv,
                 ctlv, ghostv, stop_by, stats_lock, stop_event, start_time,
                 end_time, now>>

\* run(): the goal check inside `with self.stats_lock:`, then the time check,
\* then time.sleep(0.5).  The lock is taken and given back within the step.
GoalCheck ==
  /\ pc_main = "goal"
  /\ WithLock(MainThread)
  /\ IF RunGoalReached
       THEN /\ pc_main' = "setstop"
            /\ exit_reason' = "goal"
            /\ UNCHANGED main_wake
       ELSE IF TimeExpired
         THEN /\ pc_main' = "setstop"
              /\ exit_reason' = "time"
              /\ UNCHANGED main_wake
         ELSE /\ pc_main' = "sleep"
              /\ main_wake' = now + PollSleep
              /\ UNCHANGED exit_reason
  /\ UNCHANGED <<srvv, cfgv, probe, n_started, join_i, join_deadline, final, statv, workv,
                 ctlv, ghostv, stop_by, stop_event, start_time, end_time, now>>

PollWake ==
  /\ pc_main = "sleep"
  /\ now >= main_wake
  /\ pc_main' = "poll"
  /\ UNCHANGED <<srvv, cfgv, probe, n_started, join_i, join_deadline, main_wake, final,
                 exit_reason, statv, workv, ctlv, ghostv, stop_by, stats_lock,
                 stop_event, start_time, end_time, now>>

\* ------------------------------------------------- run: orderly shutdown
\* Mutant: run() flips the event instead of setting it.
SetStopToggles ==
  /\ pc_main = "setstop"
  /\ stop_event' = ~stop_event
  /\ stop_by' = IF stop_by = "none" THEN "run" ELSE stop_by
  /\ pc_main' = "join"
  /\ join_i' = 1
  /\ join_deadline' = now + JoinTicks
  /\ UNCHANGED <<srvv, cfgv, probe, n_started, main_wake, final, exit_reason, statv,
                 workv, ctlv, ghostv, stats_lock, start_time, end_time, now>>

\* run(): `self.stop_event.set()` after the loop, then the first join begins.
SetStop ==
  /\ pc_main = "setstop"
  /\ stop_event' = TRUE
  /\ stop_by' = IF stop_by = "none" THEN "run" ELSE stop_by
  /\ pc_main' = "join"
  /\ join_i' = 1
  /\ join_deadline' = now + JoinTicks
  /\ UNCHANGED <<srvv, cfgv, probe, n_started, main_wake, final, exit_reason, statv,
                 workv, ctlv, ghostv, stats_lock, start_time, end_time, now>>

\* Mutant: join() without a timeout.
JoinUntilExit ==
  /\ pc_main = "join"
  /\ w_pc[join_i] = "w_stopped"
  /\ IF join_i < num_threads
       THEN /\ join_i' = join_i + 1
            /\ join_deadline' = now + JoinTicks
            /\ UNCHANGED pc_main
       ELSE /\ pc_main' = "sum_b"
            /\ UNCHANGED <<join_i, join_deadline>>
  /\ UNCHANGED <<srvv, cfgv, probe, n_started, main_wake, final, exit_reason, statv,
                 workv, ctlv, ghostv, stop_by, stats_lock, stop_event,
                 start_time, end_time, now>>

\* run(): `worker.join(timeout=2)` returns when the worker has exited or the
\* timeout has passed; the worker is left alone either way.
Join ==
  /\ pc_main = "join"
  /\ w_pc[join_i] = "w_stopped" \/ now >= join_deadline
  /\ IF join_i < num_threads
       THEN /\ join_i' = join_i + 1
            /\ join_deadline' = now + JoinTicks
            /\ UNCHANGED pc_main
       ELSE /\ pc_main' = "sum_b"
            /\ UNCHANGED <<join_i, join_deadline>>
  /\ UNCHANGED <<srvv, cfgv, probe, n_started, main_wake, final, exit_reason, statv,
                 workv, ctlv, ghostv, stop_by, stats_lock, stop_event,
                 start_time, end_time, now>>

\* run(): inside `with self.stats_lock:` final_bytes, success and failed are
\* read one after the other; the lock is taken with the first read and given
\* back with the last.
SummaryRead ==
  /\ pc_main \in {"sum_b", "sum_s", "sum_f"}
  /\ \/ /\ pc_main = "sum_b"
        /\ Acquire(MainThread)
        /\ final' = [final EXCEPT !.u = uploaded_bytes]
        /\ pc_main' = "sum_s"
     \/ /\ pc_main = "sum_s"
        /\ final' = [final EXCEPT !.s = successful_uploads]
        /\ pc_main' = "sum_f"
        /\ UNCHANGED stats_lock
     \/ /\ pc_main = "sum_f"
        /\ final' = [final EXCEPT !.f = failed_uploads]
        /\ Release(MainThread)
        /\ pc_main' = "print"
  /\ UNCHANGED <<srvv, cfgv, probe, n_started, join_i, join_deadline, main_wake,
                 exit_reason, statv, workv, ctlv, ghostv, stop_by, stop_event,
                 start_time, end_time, now>>

\* ----------------------------------------------------------- process exit
Terminal == {"exit1", "crash", "aborted", "sigexit", "returned"}

ProcessAlive == pc_main \notin Terminal

\* The threads are daemons (daemon=True): the process exit ends them where
\* they are.
KilledWorkers ==
  [w \in WorkerIds |-> IF w_pc[w] \in {"w_idle", "w_stopped"} THEN w_pc[w]
                       ELSE "w_killed"]

KilledCtl == IF c_pc \in {"c_idle", "c_done"} THEN c_pc ELSE "c_killed"

ExitProcess ==
  /\ w_pc' = KilledWorkers
  /\ w_res' = [w \in WorkerIds |-> NoResult]
  /\ w_tmp' = [w \in WorkerIds |-> 0]
  /\ w_open' = [w \in WorkerIds |-> 0]
  /\ c_pc' = KilledCtl
  /\ c_wake' = 0
  /\ c_elapsed' = 0
  /\ c_bytes' = 0
  /\ prog' = NoTriple
  /\ stats_lock' = NoThread

\* run(): the final summary is printed (lines 269-289); the threads are still
\* running.
PrintSummary ==
  /\ pc_main = "print"
  /\ pc_main' = "printed"
  /\ UNCHANGED <<srvv, cfgv, probe, n_started, join_i, join_deadline, main_wake, final,
                 exit_reason, statv, workv, ctlv, ghostv, stop_by, stats_lock,
                 stop_event, start_time, end_time, now>>

\* run() returns to main(), main() returns and the process exits.
MainReturn ==
  /\ pc_main = "printed"
  /\ pc_main' = "returned"
  /\ ExitProcess
  /\ UNCHANGED <<srvv, cfgv, probe, n_started, join_i, join_deadline, main_wake, final,
                 exit_reason, statv, ghostv, stop_by, stop_event, start_time,
                 end_time, now>>

InRun == pc_main \in {"probe", "probed", "spawn", "poll", "goal", "sleep",
                      "setstop", "join", "sum_b", "sum_s", "sum_f", "print",
                      "printed"}

\* SIGINT while run() executes under main(): signal_handler calls sys.exit(0);
\* SystemExit is no KeyboardInterrupt and no Exception, so neither run()'s nor
\* main()'s handler catches it and the process exits.
Sigint ==
  /\ InRun
  /\ pc_main' = "sigexit"
  /\ ExitProcess
  /\ UNCHANGED <<srvv, cfgv, probe, n_started, join_i, join_deadline, main_wake, final,
                 exit_reason, statv, ghostv, stop_by, stop_event, start_time,
                 end_time, now>>

\* ParallelUploader.stop(), called by whoever holds the uploader.
Stop ==
  /\ InRun
  /\ ~stop_event
  /\ stop_event' = TRUE
  /\ stop_by' = "stop"
  /\ UNCHANGED <<srvv, cfgv, mainv, statv, workv, ctlv, ghostv, stats_lock, start_time,
                 end_time, now>>

\* ---------------------------------------------------------- upload_worker
\* upload_worker(): `if self.uploaded_bytes >= self.total_bytes: break`
\* Mutant: the worker never finds the goal reached.
WorkerGoalIgnored == FALSE

WorkerGoalReached == uploaded_bytes >= total_bytes

\* upload_worker(): `while not self.stop_event.is_set():` and
\* `if not self.continuous:`
WorkerLoop(w) ==
  /\ w_pc[w] = "w_loop"
  /\ w_pc' = [w_pc EXCEPT ![w] = IF stop_event THEN "w_stopped"
                                 ELSE IF Bounded THEN "w_goal"
                                 ELSE "w_send"]
  /\ UNCHANGED <<srvv, cfgv, mainv, statv, w_res, w_tmp, w_open, ctlv, ghostv, stop_by,
                 stats_lock, stop_event, start_time, end_time, now>>

\* The goal check inside `with self.stats_lock:`; the break leaves the `with`
\* block, which releases the lock.
WorkerGoalCheck(w) ==
  /\ w_pc[w] = "w_goal"
  /\ WithLock(WorkerThread(w))
  /\ w_pc' = [w_pc EXCEPT ![w] = IF WorkerGoalReached THEN "w_stopped"
                                 ELSE "w_send"]
  /\ UNCHANGED <<srvv, cfgv, mainv, statv, w_res, w_tmp, w_open, ctlv, ghostv, stop_by,
                 stop_event, start_time, end_time, now>>

\* -------------------------------------------------------------- send_data
\* len(data) of the chunk generate_random_data(self.chunk_size_bytes) returns.
DataLen == chunk_size_bytes

\* send_data(): `content_length = len(data)` put in the Content-Length header.
ContentLength(n) == n

\* send_data(): the request header is built and written for every target
\* port; there is no other framing in the function.
WritesHeader(port) == TRUE

\* What one send_data call wrote and returned, by the step at which it
\* failed: "header" (sendall(headers) raised), "payload" (sendall(data)
\* raised) or "none"; an exception of the optional recv is swallowed.
SendResult(fail, recv_ok) ==
  [ok |-> fail = "none",
   wrote |-> fail # "header",
   hdr |-> fail # "header" /\ WritesHeader(target_port),
   clen |-> IF fail # "header" /\ WritesHeader(target_port)
              THEN ContentLength(DataLen) ELSE 0,
   sent |-> IF fail = "none" THEN DataLen ELSE 0,
   recv |-> fail = "none" /\ recv_ok]

InFlight == Cardinality({w \in WorkerIds : w_pc[w] = "w_conn"})

\* Mutant: the finally clause leaves the socket open.
LeftOpen(n) == n

\* send_data(): `sock.close()` in the finally clause, on the number of sockets
\* the worker has open.
SockClose(n) == n - 1

\* send_data(): socket(), settimeout, connect.  A failure returns False
\* through the except and finally clauses: with sock still None when
\* socket() raised, after closing the socket when connect() raised.
Connect(w) ==
  /\ w_pc[w] = "w_send"
  /\ calls_returned + InFlight < MaxSends
  /\ \E fail \in {"none", "socket", "connect"} :
       IF fail = "none"
         THEN /\ w_pc' = [w_pc EXCEPT ![w] = "w_conn"]
              /\ w_open' = [w_open EXCEPT ![w] = @ + 1]
              /\ UNCHANGED <<w_res, calls_returned>>
         ELSE /\ w_pc' = [w_pc EXCEPT ![w] = "w_rec"]
              /\ w_res' = [w_res EXCEPT ![w] = NoResult]
              /\ w_open' = [w_open EXCEPT ![w] = IF fail = "socket" THEN @
                                                ELSE SockClose(@ + 1)]
              /\ calls_returned' = calls_returned + 1
  /\ UNCHANGED <<srvv, cfgv, mainv, statv, w_tmp, ctlv, bytes_ok, stop_by, stats_lock,
                 stop_event, start_time, end_time, now>>

\* send_data(): sendall(headers), sendall(data), the optional recv, the
\* return value and the close of the finally clause.
Transmit(w) ==
  /\ w_pc[w] = "w_conn"
  /\ \E fail \in {"none", "header", "payload"}, recv_ok \in BOOLEAN :
       /\ w_res' = [w_res EXCEPT ![w] = SendResult(fail, recv_ok)]
       /\ bytes_ok' = bytes_ok + (IF SendResult(fail, recv_ok).ok THEN DataLen ELSE 0)
  /\ calls_returned' = calls_returned + 1
  /\ w_open' = [w_open EXCEPT ![w] = SockClose(@)]
  /\ w_pc' = [w_pc EXCEPT ![w] = "w_rec"]
  /\ UNCHANGED <<srvv, cfgv, mainv, statv, w_tmp, ctlv, stop_by, stats_lock, stop_event,
                 start_time, end_time, now>>

\* ------------------------------------------- upload_worker: record outcome
\* Mutant: `=` in place of `+=`.
NewUploadedAssigned(old) == DataLen

\* `self.uploaded_bytes += len(data)`: the value stored.
NewUploaded(old) == old + DataLen

\* Mutant: the counter is stored back as it was loaded.
CountNotAdvanced(old) == old

\* `self.successful_uploads += 1` and `self.failed_uploads += 1`: the value
\* stored.
NewCount(old) == old + 1

\* upload_worker(): `with self.stats_lock:` after send_data returned.  Each
\* `+=` on an attribute is a load followed by a store; the lock is taken with
\* the first load.
RecordBegin(w) ==
  /\ w_pc[w] = "w_rec"
  /\ Acquire(WorkerThread(w))
  /\ IF w_res[w].ok
       THEN /\ w_tmp' = [w_tmp EXCEPT ![w] = uploaded_bytes]
            /\ w_pc' = [w_pc EXCEPT ![w] = "w_st_b"]
       ELSE /\ w_tmp' = [w_tmp EXCEPT ![w] = failed_uploads]
            /\ w_pc' = [w_pc EXCEPT ![w] = "w_st_f"]
  /\ UNCHANGED <<srvv, cfgv, mainv, statv, w_res, w_open, ctlv, ghostv, stop_by,
                 stop_event, start_time, end_time, now>>

\* The store of uploaded_bytes, then the load of successful_uploads.
RecordStoreBytes(w) ==
  /\ w_pc[w] = "w_st_b"
  /\ uploaded_bytes' = NewUploaded(w_tmp[w])
  /\ w_tmp' = [w_tmp EXCEPT ![w] = successful_uploads]
  /\ w_pc' = [w_pc EXCEPT ![w] = "w_st_s"]
  /\ UNCHANGED <<srvv, cfgv, mainv, successful_uploads, failed_uploads, w_res, w_open,
                 ctlv, ghostv, stop_by, stats_lock, stop_event, start_time,
                 end_time, now>>

\* The last store of the `with` block, the release at its end, then
\* time.sleep(0.01).
RecordEnd(w) ==
  /\ w_pc[w] \in {"w_st_s", "w_st_f"}
  /\ \/ /\ w_pc[w] = "w_st_s"
        /\ successful_uploads' = NewCount(w_tmp[w])
        /\ UNCHANGED failed_uploads
     \/ /\ w_pc[w] = "w_st_f"
        /\ failed_uploads' = NewCount(w_tmp[w])
        /\ UNCHANGED successful_uploads
  /\ Release(WorkerThread(w))
  /\ w_tmp' = [w_tmp EXCEPT ![w] = 0]
  /\ w_res' = [w_res EXCEPT ![w] = NoResult]
  /\ w_pc' = [w_pc EXCEPT ![w] = "w_loop"]
  /\ UNCHANGED <<srvv, cfgv, mainv, uploaded_bytes, w_open, ctlv, ghostv, stop_by,
                 stop_event, start_time, end_time, now>>

\* ------------------------------------------------------- speed_controller
\* Mutant: the comparison also holds at equality.
TooFastOrEqual(current, elapsed) ==
  current * duration * OvershootDen >= total_bytes * elapsed * OvershootNum

\* speed_controller(): `current_bytes > expected_bytes * 1.1` with
\* expected_bytes = total_bytes / (duration_hours * 3600) * elapsed, in exact
\* arithmetic (duration is never 0 here: the constructor raised).
TooFast(current, elapsed) ==
  IF duration > 0
    THEN current * duration * OvershootDen > total_bytes * elapsed * OvershootNum
    ELSE current * duration * OvershootDen < total_bytes * elapsed * OvershootNum

\* speed_controller(): `while not self.stop_event.is_set():` then time.sleep(1)
CtlWhile ==
  /\ c_pc = "c_while"
  /\ IF stop_event
       THEN /\ c_pc' = "c_done"
            /\ UNCHANGED c_wake
       ELSE /\ c_pc' = "c_sleep"
            /\ c_wake' = now + CtlTicks
  /\ UNCHANGED <<srvv, cfgv, mainv, statv, workv, c_elapsed, c_bytes, prog, ghostv,
                 stop_by, stats_lock, stop_event, start_time, end_time, now>>

\* After the sleep: `elapsed = current_time - self.start_time` and, inside
\* `with self.stats_lock:`, `current_bytes = self.uploaded_bytes`.
CtlRead ==
  /\ c_pc = "c_sleep"
  /\ now >= c_wake
  /\ WithLock(CtlThread)
  /\ c_elapsed' = now - start_time
  /\ c_bytes' = uploaded_bytes
  /\ c_pc' = "c_cmp"
  /\ UNCHANGED <<srvv, cfgv, mainv, statv, workv, c_wake, prog, ghostv, stop_by,
                 stop_event, start_time, end_time, now>>

\* `if current_bytes > expected_bytes * 1.1: time.sleep(0.5)`: only the
\* controller thread sleeps.
CtlCompare ==
  /\ c_pc = "c_cmp"
  /\ IF TooFast(c_bytes, c_elapsed)
       THEN /\ c_pc' = "c_damp"
            /\ c_wake' = now + DampTicks
       ELSE /\ c_pc' = "p_b"
            /\ UNCHANGED c_wake
  /\ c_elapsed' = 0
  /\ c_bytes' = 0
  /\ UNCHANGED <<srvv, cfgv, mainv, statv, workv, prog, ghostv, stop_by, stats_lock,
                 stop_event, start_time, end_time, now>>

CtlDampWake ==
  /\ c_pc = "c_damp"
  /\ now >= c_wake
  /\ c_pc' = "p_b"
  /\ UNCHANGED <<srvv, cfgv, mainv, statv, workv, c_wake, c_elapsed, c_bytes, prog,
                 ghostv, stop_by, stats_lock, stop_event, start_time, end_time, now>>

\* --------------------------------------------------------- print_progress
\* print_progress(): inside `with self.stats_lock:` uploaded, success and
\* failed are read one after the other; the lock is taken with the first read
\* and given back with the last.
ProgressRead ==
  /\ c_pc \in {"p_b", "p_s", "p_f"}
  /\ \/ /\ c_pc = "p_b"
        /\ Acquire(CtlThread)
        /\ prog' = [prog EXCEPT !.u = uploaded_bytes]
        /\ c_pc' = "p_s"
     \/ /\ c_pc = "p_s"
        /\ prog' = [prog EXCEPT !.s = successful_uploads]
        /\ c_pc' = "p_f"
        /\ UNCHANGED stats_lock
     \/ /\ c_pc = "p_f"
        /\ prog' = [prog EXCEPT !.f = failed_uploads]
        /\ Release(CtlThread)
        /\ c_pc' = "p_emit"
  /\ UNCHANGED <<srvv, cfgv, mainv, statv, workv, c_wake, c_elapsed, c_bytes, ghostv,
                 stop_by, stop_event, start_time, end_time, now>>

\* print_progress(): the status line is printed; back to the loop test.
ProgressEmit ==
  /\ c_pc = "p_emit"
  /\ c_pc' = "c_while"
  /\ prog' = NoTriple
  /\ UNCHANGED <<srvv, cfgv, mainv, statv, workv, c_wake, c_elapsed, c_bytes, ghostv,
                 stop_by, stats_lock, stop_event, start_time, end_time, now>>

\* ------------------------------------------------------------------- time
MainWaiting ==
  \/ pc_main \in Terminal
  \/ pc_main = "sleep" /\ now < main_wake
  \/ pc_main = "join" /\ w_pc[join_i] # "w_stopped" /\ now < join_deadline

WorkerWaiting(w) == w_pc[w] \in {"w_idle", "w_send", "w_conn", "w_stopped", "w_killed"}

CtlWaiting ==
  \/ c_pc \in {"c_idle", "c_done", "c_killed"}
  \/ c_pc \in {"c_sleep", "c_damp"} /\ now < c_wake

\* Half a second passes: no thread has a step of its own to take.
Tick ==
  /\ ProcessAlive
  /\ now < MaxTime
  /\ MainWaiting
  /\ CtlWaiting
  /\ \A w \in WorkerIds : WorkerWaiting(w)
  /\ now' = now + 1
  /\ UNCHANGED <<srvv, cfgv, mainv, statv, workv, ctlv, ghostv, stop_by, stats_lock,
                 stop_event, start_time, end_time>>

\* ---------------------------------------------------------- specification
WorkerStep(w) ==
  \/ WorkerLoop(w)
  \/ WorkerGoalCheck(w)
  \/ Connect(w)
  \/ Transmit(w)
  \/ RecordBegin(w)
  \/ RecordStoreBytes(w)
  \/ RecordEnd(w)

Next ==
  \/ Main
  \/ TestConnection
  \/ RunStart
  \/ Spawn
  \/ Poll
  \/ GoalCheck
  \/ PollWake
  \/ SetStop
  \/ Join
  \/ SummaryRead
  \/ PrintSummary
  \/ MainReturn
  \/ Sigint
  \/ Stop
  \/ CtlWhile
  \/ CtlRead
  \/ CtlCompare
  \/ CtlDampWake
  \/ ProgressRead
  \/ ProgressEmit
  \/ Tick
  \/ \E w \in WorkerIds : ProcessAlive /\ WorkerStep(w)

Spec == Init /\ [][Next]_vars

\* ------------------------------------- the damping decision on its inputs
\* The comparison of speed_controller() applied to chosen inputs: a run in
\* continuous mode whose controller has just read current_bytes after
\* `elapsed` units of time, with a target speed of 1000 per unit of time.
DampDurations == {1, 2, 10, 24}

DampElapsed == {1, 5, 10, 20}

DampCurrent == {0, 1100, 1102, 5500, 10500, 11000, 11002, 12000, 22000, 24000}

InitDamping ==
  /\ args_threads = Baseline.threads
  /\ args_chunk = Baseline.chunk
  /\ duration \in DampDurations
  /\ total_bytes = 1000 * duration
  /\ continuous = TRUE
  /\ target_port = Baseline.port
  /\ c_elapsed \in DampElapsed
  /\ c_bytes \in DampCurrent
  /\ pc_main = "sleep"
  /\ probe = "ok"
  /\ n_started = num_threads
  /\ join_i = 0
  /\ join_deadline = 0
  /\ main_wake = c_elapsed + PollSleep
  /\ final = NoTriple
  /\ exit_reason = "none"
  /\ uploaded_bytes = c_bytes
  /\ successful_uploads = c_bytes \div chunk_size_bytes
  /\ failed_uploads = 0
  /\ stats_lock = NoThread
  /\ stop_event = FALSE
  /\ start_time = 0
  /\ end_time = duration
  /\ now = c_elapsed
  /\ w_pc = [w \in WorkerIds |-> IF w \in Workers THEN "w_conn" ELSE "w_idle"]
  /\ w_res = [w \in WorkerIds |-> NoResult]
  /\ w_tmp = [w \in WorkerIds |-> 0]
  /\ w_open = [w \in WorkerIds |-> IF w \in Workers THEN 1 ELSE 0]
  /\ c_pc = "c_cmp"
  /\ c_wake = c_elapsed
  /\ prog = NoTriple
  /\ calls_returned = c_bytes \div chunk_size_bytes
  /\ bytes_ok = c_bytes
  /\ stop_by = "none"
  /\ ServerIdle

NextDamping == CtlCompare

SpecDamping == InitDamping /\ [][NextDamping]_vars

\* ------------------------------------------------ dummy_server.py receiver
uploaderv == <<cfgv, mainv, statv, workv, ctlv, ghostv, stop_by,
               stats_lock, stop_event, start_time, end_time, now>>

\* Content-Length headers tried: absent, not a number, or one of these numbers.
HeaderKinds == {"absent", "invalid", "number"}

LengthArgs == {ReadToEnd, 3, LargeBody + 1}

\* What the client has sent of the body when it stops sending: nothing, a
\* body that ends inside the second chunk, or the whole declared length.
BodySizes(n) == {0, ReadChunk + 1} \cup (IF n > 0 THEN {n} ELSE {})

\* self.rfile.read(n) with `avail` bytes left in the stream: n bytes unless
\* the stream ends first, the rest of the stream when n = -1.
RfileRead(n, avail) ==
  IF n = ReadToEnd THEN avail ELSE IF n < avail THEN n ELSE avail

\* One test of the while loop of do_POST and, when it holds, one iteration;
\* `more` tells whether the loop goes on.
ReadOnce(read, n, avail) ==
  IF ~(read < n) THEN [bytes_read |-> read, more |-> FALSE]
  ELSE LET remaining == n - read
           to_read == IF ReadChunk < remaining THEN ReadChunk ELSE remaining
           chunk == RfileRead(to_read, avail - read)
       IN  IF chunk = 0
             THEN [bytes_read |-> read, more |-> FALSE]
             ELSE [bytes_read |-> read + chunk, more |-> TRUE]

\* Up to `left` runs of the loop at a level: a run of level 0 is ReadOnce, a
\* run of a higher level is twenty runs of the level below.  The iterations
\* are the loop's, one after the other; the levels keep the evaluation
\* shallow.
RECURSIVE ReadRun(_, _, _, _, _)
ReadRun(level, left, read, n, avail) ==
  IF left = 0 THEN [bytes_read |-> read, more |-> TRUE]
  ELSE LET part == IF level = 0 THEN ReadOnce(read, n, avail)
                   ELSE ReadRun(level - 1, 20, read, n, avail)
       IN  IF part.more THEN ReadRun(level, left - 1, part.bytes_read, n, avail)
           ELSE part

\* The while loop of do_POST, from bytes_read = `read` to its exit.
RECURSIVE ReadLoop(_, _, _)
ReadLoop(read, n, avail) ==
  LET part == ReadRun(2, 20, read, n, avail)
  IN  IF part.more THEN ReadLoop(part.bytes_read, n, avail) ELSE part.bytes_read

\* bytes_read of do_POST for a declared length n.
ReadBody(n, avail) ==
  IF n < LargeBody THEN RfileRead(n, avail) ELSE ReadLoop(0, n, avail)

\* ReadBody tabulated once over the requests tried.
DeclaredLengths == LengthArgs \cup {0}

BodiesTried == UNION {BodySizes(n) : n \in DeclaredLengths}

ReadTable == [n \in DeclaredLengths |-> [avail \in BodiesTried |-> ReadBody(n, avail)]]

\* Mutant: the handlers' lock never makes anyone wait.
HandlerLockNeverHeld == TRUE

\* `with UploadHandler.stats_lock:` entry: blocks until the lock is free.
HandlerLockFree == handler_stats_lock = NoThread

\* A POST arrives on connection h (connections are numbered in the order
\* they are accepted) and do_POST converts its Content-Length; a header that
\* is not a number raises, and the outer `except Exception: pass` ends the
\* handler.
PostArrive(h) ==
  /\ h_pc[h] = "h_idle"
  /\ IF h = 1 THEN TRUE ELSE h_pc[h - 1] # "h_idle"
  /\ \E kind \in HeaderKinds, n \in LengthArgs :
       IF kind = "invalid"
         THEN /\ h_pc' = [h_pc EXCEPT ![h] = "h_failed"]
              /\ UNCHANGED <<content_length, h_body>>
         ELSE /\ content_length' = [content_length EXCEPT ![h] = IF kind = "absent" THEN 0 ELSE n]
              /\ \E body \in BodySizes(content_length'[h]) :
                   h_body' = [h_body EXCEPT ![h] = body]
              /\ h_pc' = [h_pc EXCEPT ![h] = "h_read"]
  /\ UNCHANGED <<uploaderv, total_received, request_count, handler_stats_lock,
                 bytes_read, h_tmp, g_pc, g_total, g_count>>

\* The body is read, at once or in chunks; a read that raises (connection
\* reset) ends the handler through `except Exception: pass`.
PostRead(h) ==
  /\ h_pc[h] = "h_read"
  /\ \E reset \in BOOLEAN :
       IF reset
         THEN /\ h_pc' = [h_pc EXCEPT ![h] = "h_failed"]
              /\ UNCHANGED bytes_read
         ELSE /\ bytes_read' = [bytes_read EXCEPT ![h] = ReadTable[content_length[h]][h_body[h]]]
              /\ h_pc' = [h_pc EXCEPT ![h] = "h_upd"]
  /\ UNCHANGED <<uploaderv, total_received, request_count, handler_stats_lock,
                 content_length, h_body, h_tmp, g_pc, g_total, g_count>>

\* Entry of the block and the load of `total_received += bytes_read`.
PostLock(h) ==
  /\ h_pc[h] = "h_upd"
  /\ HandlerLockFree
  /\ handler_stats_lock' = PostHandler(h)
  /\ h_tmp' = [h_tmp EXCEPT ![h] = total_received]
  /\ h_pc' = [h_pc EXCEPT ![h] = "h_st_t"]
  /\ UNCHANGED <<uploaderv, total_received, request_count, content_length, h_body,
                 bytes_read, g_pc, g_total, g_count>>

\* The store of `total_received += bytes_read` and the load of
\* `request_count += 1`.
PostStoreTotal(h) ==
  /\ h_pc[h] = "h_st_t"
  /\ total_received' = h_tmp[h] + bytes_read[h]
  /\ h_tmp' = [h_tmp EXCEPT ![h] = request_count]
  /\ h_pc' = [h_pc EXCEPT ![h] = "h_st_c"]
  /\ UNCHANGED <<uploaderv, request_count, handler_stats_lock, content_length, h_body,
                 bytes_read, g_pc, g_total, g_count>>

\* The store of `request_count += 1`, the exit of the block and the response,
\* whose errors are ignored.
PostStoreCount(h) ==
  /\ h_pc[h] = "h_st_c"
  /\ request_count' = h_tmp[h] + 1
  /\ handler_stats_lock' = NoThread
  /\ h_tmp' = [h_tmp EXCEPT ![h] = 0]
  /\ h_pc' = [h_pc EXCEPT ![h] = "h_done"]
  /\ UNCHANGED <<uploaderv, total_received, content_length, h_body, bytes_read,
                 g_pc, g_total, g_count>>

\* do_GET sends the status line and the headers; an error there ends it
\* through the bare `except: pass`.
GetStart ==
  /\ g_pc = "g_idle"
  /\ \E sent \in BOOLEAN : g_pc' = IF sent THEN "g_lock" ELSE "g_done"
  /\ UNCHANGED <<uploaderv, total_received, request_count, handler_stats_lock,
                 h_pc, content_length, h_body, bytes_read, h_tmp, g_total, g_count>>

\* Entry of the block and `total = UploadHandler.total_received`.
GetReadTotal ==
  /\ g_pc = "g_lock"
  /\ HandlerLockFree
  /\ handler_stats_lock' = GetHandler
  /\ g_total' = total_received
  /\ g_pc' = "g_mid"
  /\ UNCHANGED <<uploaderv, total_received, request_count,
                 h_pc, content_length, h_body, bytes_read, h_tmp, g_count>>

\* `count = UploadHandler.request_count`, the exit of the block and the page.
GetReadCount ==
  /\ g_pc = "g_mid"
  /\ g_count' = request_count
  /\ handler_stats_lock' = NoThread
  /\ g_pc' = "g_done"
  /\ UNCHANGED <<uploaderv, total_received, request_count,
                 h_pc, content_length, h_body, bytes_read, h_tmp, g_total>>

\* The receiver alone: the uploader stays as constructed from the baseline
\* command line.
InitServer ==
  /\ Init
  /\ Changed(CommandLine(args_threads, args_chunk, total_bytes, duration, target_port)) = {}
  /\ ~continuous

NextServer ==
  \/ \E h \in Posts : PostArrive(h)
  \/ \E h \in Posts : PostRead(h)
  \/ \E h \in Posts : PostLock(h)
  \/ \E h \in Posts : PostStoreTotal(h)
  \/ \E h \in Posts : PostStoreCount(h)
  \/ GetStart
  \/ GetReadTotal
  \/ GetReadCount

SpecServer == InitServer /\ [][NextServer]_vars


\* ================================================================= claims
Recording(w) == w_pc[w] \in {"w_rec", "w_st_b", "w_st_s", "w_st_f"}

Quiescent == \A w \in WorkerIds : ~Recording(w) /\ w_pc[w] # "w_killed"

Counters == [u |-> uploaded_bytes, s |-> successful_uploads, f |-> failed_uploads]

\* C1: whenever every worker's post-send update has completed,
\* successful_uploads + failed_uploads is the number of send_data calls that
\* returned and uploaded_bytes is the sum of len(data) over the calls that
\* returned True: no update is lost or counted twice.
C1_NoLostUpdates ==
  Quiescent =>
    /\ successful_uploads + failed_uploads = calls_returned
    /\ uploaded_bytes = bytes_ok

\* Two workers have both exited after successes and a failure were recorded.
C1_Witness ==
  /\ num_threads = 2
  /\ \A w \in Workers : w_pc[w] = "w_stopped"
  /\ successful_uploads >= 2
  /\ failed_uploads >= 1

\* C2: a triple read by print_progress or by the final summary is the value
\* of the three counters at one instant: while the reader is inside its
\* `with` block what it has read so far equals the counters, and every
\* completed triple has uploaded = successful * chunk_size_bytes.
C2_SnapshotConsistent ==
  /\ c_pc = "p_s" => prog.u = uploaded_bytes
  /\ c_pc = "p_f" => prog.u = uploaded_bytes /\ prog.s = successful_uploads
  /\ c_pc = "p_emit" => prog.u = prog.s * chunk_size_bytes
  /\ pc_main = "sum_s" => final.u = uploaded_bytes
  /\ pc_main = "sum_f" => final.u = uploaded_bytes /\ final.s = successful_uploads
  /\ pc_main \in {"print", "printed", "returned"} => final.u = final.s * chunk_size_bytes

\* A progress triple taken while two workers run, already overtaken by a
\* later update.
C2_Witness ==
  /\ num_threads = 2
  /\ c_pc = "p_emit"
  /\ prog.s >= 1
  /\ successful_uploads > prog.s

\* C3: in bounded mode, when the polling loop is left through the goal check
\* uploaded_bytes >= total_bytes holds from that check on, run() has not set
\* the stop signal before it, and the final summary reports at least
\* total_bytes.
C3_GoalStopNotEarly ==
  /\ exit_reason = "goal" => Bounded /\ uploaded_bytes >= total_bytes
  /\ exit_reason = "goal" /\ pc_main = "setstop" => stop_by # "run"
  /\ stop_by = "run" => exit_reason # "none"
  /\ exit_reason = "goal" /\ pc_main \in {"print", "printed", "returned"} =>
       final.u >= total_bytes

\* The summary of a run that ended through the goal check.
C3_Witness ==
  /\ pc_main = "print"
  /\ exit_reason = "goal"
  /\ total_bytes > 0
  /\ stop_by = "run"

\* C4: in bounded mode the stop signal is set no later than one polling
\* interval after start_time + duration, whatever the workers do (unless the
\* process was ended by SIGINT before).
C4_DurationStop ==
  (Bounded /\ start_time # NoTime /\ pc_main # "sigexit"
     /\ now > end_time + PollTicks) => stop_event

\* Stopped on time although every send failed.
C4_Witness ==
  /\ Bounded
  /\ exit_reason = "time"
  /\ stop_event
  /\ stop_by = "run"
  /\ duration > 0
  /\ successful_uploads = 0
  /\ failed_uploads >= 1
  /\ uploaded_bytes < total_bytes

\* C5: the process does not end on an interrupt, with workers running,
\* before the stop signal has been set.
C5_SigintGraceful ==
  (pc_main = "sigexit" /\ \E w \in WorkerIds : w_pc[w] = "w_killed") => stop_event

\* C6: with sends that always succeed (and a positive goal and duration), at
\* every time after the start uploaded_bytes is at most
\* 1.1 * bytes_per_second * (now - start_time) plus one chunk per worker.
C6_OvershootBand ==
  (start_time # NoTime /\ now > start_time /\ duration > 0 /\ total_bytes > 0
     /\ failed_uploads = 0
     /\ bytes_ok = calls_returned * chunk_size_bytes) =>
    OvershootDen * duration * uploaded_bytes
      <= OvershootNum * total_bytes * (now - start_time)
         + OvershootDen * duration * num_threads * chunk_size_bytes

\* C7: after a failed probe run() returns: no worker and no controller is
\* started, start_time stays unset and the three counters stay 0.
C7_ProbeFailureAborts ==
  probe = "failed" =>
    /\ pc_main \in {"probed", "aborted", "sigexit"}
    /\ start_time = NoTime
    /\ \A w \in WorkerIds : w_pc[w] = "w_idle"
    /\ c_pc = "c_idle"
    /\ Counters = NoTriple

\* run() has returned after a failed probe.
C7_Witness == probe = "failed" /\ pc_main = "aborted"

InvalidConfig ==
  \/ args_threads < 1 \/ args_threads > 100
  \/ args_chunk < 1 \/ args_chunk > 100
  \/ Bounded /\ (total_bytes <= 0 \/ duration <= 0)

\* C8: with an invalid configuration (worker count or chunk size outside
\* [1,100], or in bounded mode a volume or duration <= 0) no upload worker
\* is ever launched.
C8_InvalidConfigNeverLaunches ==
  InvalidConfig => \A w \in WorkerIds : w_pc[w] = "w_idle"

AfterLoop == pc_main \in {"setstop", "join", "sum_b", "sum_s", "sum_f", "print",
                          "printed", "returned"}

\* C9: in continuous mode the polling loop is never left through the goal or
\* the time check, the stop signal is first set by stop() and never by run()
\* on its own, and a worker exits only once the stop signal is set.
C9_ContinuousStopsOnlyFromOutside ==
  continuous =>
    /\ exit_reason \in {"none", "stop"}
    /\ stop_event => stop_by = "stop"
    /\ AfterLoop => stop_event
    /\ \A w \in WorkerIds : w_pc[w] = "w_stopped" => stop_event

\* A worker sends again although the goal is reached and the duration is over.
C9_Witness ==
  /\ continuous
  /\ ~stop_event
  /\ total_bytes > 0
  /\ uploaded_bytes >= total_bytes
  /\ now > end_time
  /\ start_time # NoTime
  /\ \E w \in Workers : w_pc[w] = "w_conn"

\* C10: what a send_data call wrote is the payload alone when target_port is
\* 9, and for every other port a header whose Content-Length is len(data)
\* followed by the payload.
C10_FramingByPort ==
  \A w \in WorkerIds :
    (w_pc[w] = "w_rec" /\ w_res[w].wrote) =>
      IF target_port = 9 THEN ~w_res[w].hdr
      ELSE w_res[w].hdr /\ w_res[w].clen = chunk_size_bytes

\* C11: a send_data call that failed (at socket creation, connect, header
\* write or payload write) is recorded by adding exactly 1 to failed_uploads
\* with uploaded_bytes and successful_uploads unchanged, after which the
\* worker is back at the top of its loop; a worker leaves its loop only at
\* the loop test with the stop signal set or at the goal check with the goal
\* reached, never because of a send error.
C11_FailureCountedOnce ==
  [][\A w \in WorkerIds :
       /\ (w_pc[w] = "w_rec" /\ ~w_res[w].ok /\ w_pc'[w] \notin {"w_rec", "w_killed"}) =>
            /\ w_pc'[w] = "w_st_f"
            /\ statv' = statv
       /\ (w_pc[w] = "w_st_f" /\ w_pc'[w] \notin {"w_st_f", "w_killed"}) =>
            /\ failed_uploads' = failed_uploads + 1
            /\ uploaded_bytes' = uploaded_bytes
            /\ successful_uploads' = successful_uploads
            /\ w_pc'[w] = "w_loop"
       /\ (w_pc[w] # "w_stopped" /\ w_pc'[w] = "w_stopped") =>
            \/ w_pc[w] = "w_loop" /\ stop_event
            \/ w_pc[w] = "w_goal" /\ Bounded /\ uploaded_bytes >= total_bytes]_vars

\* The only worker is in its third send after two failed ones.
C11_Witness ==
  /\ num_threads = 1
  /\ w_pc[1] = "w_conn"
  /\ failed_uploads = 2
  /\ uploaded_bytes = 0
  /\ successful_uploads = 0
  /\ ~stop_event

OpenConnections == {w \in WorkerIds : w_open[w] >= 1}

\* C12: send_data returns True exactly when the header and the whole payload
\* were written on a connected socket, whatever the optional read of the
\* response did; when it has returned, on any path, the socket it opened is
\* closed, so a worker has at most one open connection, only while it is
\* inside send_data, and at most num_threads connections are open in total.
C12_SendResultAndClose ==
  /\ \A w \in WorkerIds :
       /\ w_open[w] \in {0, 1}
       /\ w_pc[w] # "w_conn" => w_open[w] = 0
       /\ w_pc[w] = "w_rec" =>
            (w_res[w].ok <=> (w_res[w].hdr /\ w_res[w].sent = DataLen))
  /\ Cardinality(OpenConnections) <= num_threads

\* A call returned True although the read of the response failed, while the
\* other worker still has its connection open.
C12_Witness ==
  /\ num_threads = 2
  /\ \E w \in Workers : w_pc[w] = "w_rec" /\ w_res[w].ok /\ ~w_res[w].recv
  /\ \E w \in Workers : w_pc[w] = "w_conn" /\ w_open[w] = 1

\* C13: in a controller cycle the extra 0.5 s delay is inserted exactly when
\* current_bytes > 1.1 * bytes_per_second * elapsed (bytes_per_second being
\* total_bytes / duration): at 1000 per unit of time and elapsed 10 it is
\* inserted for current 12000, not for 10500, and never when current equals
\* 1.1 times the expected volume.
C13_DampingDecision ==
  [][(c_pc = "c_cmp" /\ duration > 0) =>
       /\ c_pc' \in {"c_damp", "p_b"}
       /\ c_pc' = "c_damp" <=>
            10 * c_bytes * duration > 11 * total_bytes * c_elapsed
       /\ c_pc' = "c_damp" => c_wake' = now + DampTicks
       /\ (total_bytes = 1000 * duration /\ c_elapsed = 10 /\ c_bytes = 12000) =>
            c_pc' = "c_damp"
       /\ (total_bytes = 1000 * duration /\ c_elapsed = 10 /\ c_bytes = 10500) =>
            c_pc' = "p_b"
       /\ 10 * c_bytes * duration = 11 * total_bytes * c_elapsed =>
            c_pc' = "p_b"]_vars

\* The delay was inserted for current 12000 after 10 units at 1000 per unit.
C13_Witness ==
  /\ c_pc = "c_damp"
  /\ uploaded_bytes = 12000
  /\ now = 10
  /\ total_bytes = 1000 * duration
  /\ c_wake = now + DampTicks

\* C14: the stop signal, once set, is never cleared, and the step that sets
\* it is run()'s `stop_event.set()` after its loop or a call of stop(): no
\* step of an upload worker or of the speed controller sets it.
C14_StopWriteOnce ==
  [][/\ stop_event => stop_event'
     /\ (~stop_event /\ stop_event') =>
          /\ \/ pc_main = "setstop" /\ pc_main' = "join" /\ stop_by' = "run"
             \/ mainv' = mainv /\ stop_by' = "stop"
          /\ workv' = workv
          /\ ctlv' = ctlv]_vars

\* run() has executed its own set() after stop() had already set the signal.
C14_Witness ==
  /\ stop_event
  /\ stop_by = "stop"
  /\ pc_main = "join"
  /\ exit_reason = "stop"

\* C15: a run in bounded mode with a positive duration ends with the stop
\* signal set, the final summary emitted and every upload worker STOPPED.
\* Once run() has returned the process ends and no thread takes another
\* step, so a worker that is to reach STOPPED has reached it by then.  (Runs
\* that nobody interrupted and on which nobody called stop().)
C15_BoundedRunDrains ==
  (Bounded /\ duration > 0 /\ pc_main = "returned" /\ stop_by = "run") =>
    /\ stop_event
    /\ exit_reason \in {"goal", "time"}
    /\ \A w \in Workers : w_pc[w] = "w_stopped"

\* C16: once the stop signal is set, a worker that is inside a send stays in
\* it until send_data returns, then records the outcome and goes back to its
\* loop test, where it exits: it records at most one more outcome and starts
\* no second send.  (Runs with a positive goal and duration in which run()
\* itself set the signal and no SIGINT arrives.)
C16_CooperativeCancel ==
  [][\A w \in Workers :
       (stop_event /\ stop_by = "run" /\ pc_main' # "sigexit"
          /\ duration > 0 /\ total_bytes > 0) =>
         /\ w_pc[w] = "w_conn" => w_pc'[w] \in {"w_conn", "w_rec"}
         /\ w_pc[w] = "w_rec" => w_pc'[w] \in {"w_rec", "w_st_b", "w_st_f"}
         /\ w_pc[w] = "w_st_b" => w_pc'[w] \in {"w_st_b", "w_st_s"}
         /\ w_pc[w] \in {"w_st_s", "w_st_f"} => w_pc'[w] \in {w_pc[w], "w_loop"}
         /\ w_pc[w] = "w_loop" => w_pc'[w] \in {"w_loop", "w_stopped"}
         /\ w_pc[w] = "w_stopped" => w_pc'[w] = "w_stopped"]_vars

Draining == pc_main \in {"join", "sum_b", "sum_s", "sum_f", "print", "printed"}

\* C17: after it has set the stop signal run() waits for each worker no
\* longer than the join timeout: while it joins, the deadline is at most one
\* timeout away, time does not pass it, and at the deadline the join returns
\* whatever the worker does.  From the joins to the printed summary no worker
\* is ended by run(): one that is still in a send stays in it.  The summary
\* holds the counters as they are while it reads them.
C17_BestEffortDrain ==
  /\ pc_main = "join" =>
       /\ stop_event
       /\ join_i \in Workers
       /\ now <= join_deadline
       /\ join_deadline <= now + JoinTicks
       /\ now >= join_deadline => ENABLED Join
  /\ Draining => \A w \in Workers : w_pc[w] # "w_killed"
  /\ pc_main = "sum_s" => final.u = uploaded_bytes
  /\ pc_main = "sum_f" => final.u = uploaded_bytes /\ final.s = successful_uploads

\* The summary is about to be printed, after a join that timed out, while a
\* worker is still inside a send.
C17_Witness ==
  /\ pc_main = "print"
  /\ now >= join_deadline
  /\ \E w \in Workers : w_pc[w] = "w_conn" /\ w_open[w] = 1

\* C18: stats_lock is held by one thread at most, and only by a thread that
\* is between the reads or between the load and the store of its counter
\* block: never by a worker that generates a chunk, is inside send_data, sleeps
\* or has left its loop (also through the break of the goal check), never by
\* the controller or run() while they sleep or wait.  No time passes while it
\* is held, and its holder can always take its next step, which leads to the
\* release: nobody waits for the lock forever.
C18_LockDiscipline ==
  /\ stats_lock \in {NoThread, MainThread, CtlThread}
                      \cup {WorkerThread(w) : w \in Workers}
  /\ stats_lock = MainThread <=> pc_main \in {"sum_s", "sum_f"}
  /\ stats_lock = CtlThread <=> c_pc \in {"p_s", "p_f"}
  /\ \A w \in WorkerIds :
       /\ stats_lock = WorkerThread(w) <=> w_pc[w] \in {"w_st_b", "w_st_s", "w_st_f"}
       /\ stats_lock = WorkerThread(w) =>
            ENABLED (RecordStoreBytes(w) \/ RecordEnd(w))
  /\ stats_lock = MainThread => ENABLED SummaryRead
  /\ stats_lock = CtlThread => ENABLED ProgressRead
  /\ stats_lock # NoThread => ~ENABLED Tick

\* One worker holds the lock while the other worker and the controller wait
\* for it.
C18_Witness ==
  /\ num_threads = 2
  /\ stats_lock = WorkerThread(1)
  /\ w_pc[2] = "w_rec"
  /\ c_pc = "p_b"

\* C19: the three counters are 0 until the run starts and are changed only by
\* a worker inside its post-send block, never by a step of run(),
\* test_connection, speed_controller or print_progress.  A block after a
\* successful send adds chunk_size_bytes to uploaded_bytes and then 1 to
\* successful_uploads, leaving uploaded = successful * chunk_size_bytes when
\* it ends; a block after a failed send adds 1 to failed_uploads.  No counter
\* ever decreases.
C19_OnlyWorkersCount ==
  [][/\ start_time = NoTime => Counters = NoTriple
     /\ uploaded_bytes' >= uploaded_bytes
     /\ successful_uploads' >= successful_uploads
     /\ failed_uploads' >= failed_uploads
     /\ statv' # statv =>
          /\ mainv' = mainv
          /\ ctlv' = ctlv
          /\ \E w \in WorkerIds :
               /\ w_pc'[w] # w_pc[w]
               /\ \/ /\ w_pc[w] = "w_st_b"
                     /\ statv' = <<uploaded_bytes + chunk_size_bytes,
                                   successful_uploads, failed_uploads>>
                  \/ /\ w_pc[w] = "w_st_s"
                     /\ statv' = <<uploaded_bytes, successful_uploads + 1,
                                   failed_uploads>>
                  \/ /\ w_pc[w] = "w_st_f"
                     /\ statv' = <<uploaded_bytes, successful_uploads,
                                   failed_uploads + 1>>
     /\ \A w \in WorkerIds :
          /\ (w_pc[w] = "w_st_b" /\ w_pc'[w] = "w_st_s") =>
               uploaded_bytes' = (successful_uploads' + 1) * chunk_size_bytes
          /\ (w_pc[w] = "w_st_s" /\ w_pc'[w] = "w_loop") =>
               uploaded_bytes' = successful_uploads' * chunk_size_bytes]_vars

\* Two successes and a failure are counted and a progress line was produced.
C19_Witness ==
  /\ Counters = [u |-> 2 * chunk_size_bytes, s |-> 2, f |-> 1]
  /\ chunk_size_bytes > 0
  /\ c_pc = "p_emit"
  /\ prog.s >= 1

\* C20: for any interleaving of the POST handlers of the dummy server,
\* whenever no handler is inside the locked block (in particular after all
\* handlers have finished) request_count is the number of POSTs that were
\* handled to the end and total_received is the sum of the bytes these
\* handlers read; a handler reads the whole Content-Length when the client
\* sent the whole body and never more than was sent; and a GET reads
\* total_received and request_count while no POST handler is between its two
\* updates, so the pair it gets is the pair of the handlers that completed.
Handled == {h \in Posts : h_pc[h] = "h_done"}

Updating(h) == h_pc[h] \in {"h_st_t", "h_st_c"}

RECURSIVE SumRead(_)
SumRead(S) ==
  IF S = {} THEN 0
  ELSE LET h == CHOOSE x \in S : TRUE IN bytes_read[h] + SumRead(S \ {h})

C20_ReceiverCounting ==
  /\ [](/\ handler_stats_lock = NoThread =>
              /\ request_count = Cardinality(Handled)
              /\ total_received = SumRead(Handled)
        /\ \A h \in Handled :
              /\ bytes_read[h] <= h_body[h]
              /\ (content_length[h] >= 0 /\ h_body[h] >= content_length[h]) =>
                    bytes_read[h] = content_length[h]
        /\ g_pc = "g_mid" =>
              /\ g_total = total_received
              /\ \A h \in Posts : ~Updating(h))
  /\ [][(g_pc = "g_mid" /\ g_pc' = "g_done") =>
          /\ g_total = SumRead(Handled)
          /\ g_count' = Cardinality(Handled)
          /\ g_total = total_received
          /\ g_count' = request_count]_vars

\* Two POSTs were handled, one read at once and one read to the end in
\* chunks, and a GET took its pair between them.
C20_Witness ==
  /\ \A h \in Posts : h_pc[h] = "h_done"
  /\ \E h \in Posts : bytes_read[h] = LargeBody + 1 /\ content_length[h] = LargeBody + 1
  /\ \E h \in Posts : bytes_read[h] = 3
  /\ request_count = 2
  /\ total_received = LargeBody + 4
  /\ g_pc = "g_done"
  /\ g_count = 1

\* C21: in bounded mode with total_bytes > 0 the overshoot is less than one
\* chunk per worker: uploaded_bytes < total_bytes + num_threads *
\* chunk_size_bytes in every reachable state, and a worker goes on to a send
\* only from its goal check, made with the lock free for it and with
\* uploaded_bytes < total_bytes.
C21_OvershootBelowChunkPerWorker ==
  /\ []((Bounded /\ total_bytes > 0) =>
          uploaded_bytes < total_bytes + num_threads * chunk_size_bytes)
  /\ [][\A w \in WorkerIds :
          (Bounded /\ w_pc[w] # "w_send" /\ w_pc'[w] = "w_send") =>
            /\ w_pc[w] = "w_goal"
            /\ stats_lock = NoThread
            /\ uploaded_bytes < total_bytes]_vars

\* Two workers both passed the goal check one chunk short of the goal and
\* both chunks were recorded: the goal is overshot.
C21_Witness ==
  /\ Bounded
  /\ total_bytes > 0
  /\ num_threads = 2
  /\ uploaded_bytes = total_bytes + chunk_size_bytes
  /\ uploaded_bytes > total_bytes

\* C22: once run() has printed the final summary of a run that it ended
\* itself, the speed controller prints no further progress line, whatever the
\* interleaving of the controller's sleeps with the shutdown.
C22_NoProgressAfterSummary ==
  [][(pc_main \in {"printed", "returned"} /\ stop_by = "run"
      /\ duration > 0 /\ total_bytes > 0) =>
       ~(c_pc = "p_emit" /\ c_pc' = "c_while")]_vars

====
